---- MODULE Spec2Model ----
(***************************************************************************)
(* Pipeline orchestration and checkpoint/resume engine of bulkRNASeq.      *)
(*                                                                         *)
(* Spec     : the command-line entry points that drive the preprocessing   *)
(*            pipeline and the checkpointed step runner                    *)
(*            (bulkRNASeq/main.py, preprocessing/main.py,                  *)
(*            pipeline/pipeline_runner.py), run one process at a time      *)
(*            against one checkpoint directory, with the process killed    *)
(*            at any point.                                                *)
(* SpecPost : the postprocessing pipeline, entered from                    *)
(*            postprocessing/main.py (no checkpoint manager) or called     *)
(*            with a checkpoint manager.                                   *)
(* SpecStore: the CheckpointManager of utils/checkpoint.py called          *)
(*            directly: construction, save_checkpoint, should_skip_step,   *)
(*            clear_checkpoints, by one process after another.             *)
(***************************************************************************)
EXTENDS Integers, Sequences, FiniteSets, TLC

\* Number of process invocations explored.
MaxRuns == 2

VARIABLES
    file,               \* .pipeline_checkpoint.json: [kind, doc]
    now,                \* datetime.now(), a logical clock
    runs,               \* invocations started so far
    pc,                 \* position of the running process ("idle": none)
    entry,              \* which entry point the process runs
    mode,               \* main.py --mode
    resume,             \* --resume (only the entry points that have the flag)
    restart_from,       \* config['parameters']['restart_from']
    continue_on_error,  \* postprocessing/main.py --continue-on-error
    has_mgr,            \* run_postprocessing_pipeline got a checkpoint_mgr
    checkpoints,        \* CheckpointManager.checkpoints (in memory)
    stepIdx,            \* index of the step main.py is at
    cont,               \* where the process goes on after the pending write
    exc,                \* message of the exception being propagated
    exitCode,           \* exit status of the last process
    aligners,           \* config['aligners'] keys, in configuration order
    selected_aligners,  \* run_preprocessing_pipeline: selected_aligners
    alignIdx,           \* position of the aligner loop
    gtf_file,           \* config['genome'] has gtf_file
    stats,              \* stats['aligners'] as <<aligner, key>> pairs
    summary,            \* pipeline_stats.json as last written
    success,            \* return value of the pipeline runner
    executed,           \* bodies invoked by this process
    skipped,            \* steps this process skipped as completed
    atStart,            \* step -> status the process loaded at start
    killedIn,           \* step whose body was running when the process was killed
    failedStep,         \* step the step runner recorded as failed in this process
    toolFailed,         \* an input was missing or a tool failed in this process
    fileAtStart,        \* file.kind when the process constructed its manager
    visited,            \* aligners the aligner loop of this process reached
    produced,           \* aligners whose run returned a result in this process
    request,            \* the last CheckpointManager call made by a direct caller
    answer,             \* what the last should_skip_step call returned
    before,             \* self.checkpoints before the last save_checkpoint call
    sections,           \* top-level sections the configuration file has
    log,                \* tool bodies this process entered, in order
    lock_file,          \* monitor.py: LOCK_FILE exists
    uploads,            \* number of .fq.gz files in WATCH_DIR
    seen,               \* monitor -> number of files in its seen_files
    todo,               \* monitor -> new files its for loop has yet to take
    mon,                \* monitor -> position in the watch loop
    call                \* the last configuration function applied, with its
                        \* arguments and result

envVars   == <<file, now, runs>>
argVars   == <<entry, mode, resume, restart_from, continue_on_error, has_mgr,
               sections>>
preVars   == <<aligners, selected_aligners, alignIdx, gtf_file, stats>>
ghostVars == <<executed, skipped, atStart, killedIn, failedStep, toolFailed>>
runGhosts == <<fileAtStart, visited, produced>>
storeVars == <<request, answer, before>>
pipelineVars == <<file, now, runs, pc, entry, mode, resume, restart_from,
          continue_on_error, has_mgr, checkpoints, stepIdx, cont, exc,
          exitCode, aligners, selected_aligners, alignIdx, gtf_file, stats,
          summary, success, executed, skipped, atStart, killedIn, failedStep,
          toolFailed, fileAtStart, visited, produced, request, answer, before,
          sections, log>>
monVars == <<lock_file, uploads, seen, todo, mon>>
vars == <<pipelineVars, monVars, call>>

None == "None"

(***************************************************************************)
(* utils/checkpoint.py: CheckpointManager                                  *)
(***************************************************************************)

\* The dict _load_checkpoints returns when there is no file; last_updated
\* None is the clock value 0 (the clock starts at 1).
EmptyCheckpoints ==
    [last_completed_step |-> None, steps |-> [s \in {} |-> None],
     last_updated |-> 0]

\* json.dump: None is written as null, a str as a JSON string (the
\* timestamps are isoformat() strings, numbered by the clock), a dict as an
\* object with its keys in insertion order
JsonNull == [json |-> "null"]
JsonString(s) == [json |-> "string", text |-> s]

json_dump_str(v) == IF v = None THEN JsonNull ELSE JsonString(v)
json_dump_time(t) == IF t = 0 THEN JsonNull ELSE JsonString(t)
json_dump_metadata(md) == {<<kv[1], JsonString(kv[2])>> : kv \in md}
json_dump_record(r) ==
    [status |-> JsonString(r.status), timestamp |-> json_dump_time(r.timestamp),
     metadata |-> json_dump_metadata(r.metadata)]
json_dump(ck) ==
    [last_completed_step |-> json_dump_str(ck.last_completed_step),
     steps |-> [s \in DOMAIN ck.steps |-> json_dump_record(ck.steps[s])],
     last_updated |-> json_dump_time(ck.last_updated)]

\* json.load: null is read as None, a JSON string as a str, an object as a
\* dict
json_load_str(j) == IF j.json = "null" THEN None ELSE j.text
json_load_time(j) == IF j.json = "null" THEN 0 ELSE j.text
json_load_metadata(jmd) == {<<kv[1], kv[2].text>> : kv \in jmd}
json_load_record(j) ==
    [status |-> json_load_str(j.status), timestamp |-> json_load_time(j.timestamp),
     metadata |-> json_load_metadata(j.metadata)]

json_load_noLast(j) ==
    [last_completed_step |-> None,
     steps |-> [s \in DOMAIN j.steps |-> json_load_record(j.steps[s])],
     last_updated |-> json_load_time(j.last_updated)]

json_load(j) ==
    [last_completed_step |-> json_load_str(j.last_completed_step),
     steps |-> [s \in DOMAIN j.steps |-> json_load_record(j.steps[s])],
     last_updated |-> json_load_time(j.last_updated)]

NoFile == [kind |-> "absent", doc |-> json_dump(EmptyCheckpoints)]
\* open(file, 'w') has truncated the file and json.dump has not finished.
TruncatedFile == [kind |-> "corrupt", doc |-> json_dump(EmptyCheckpoints)]
JsonFile(doc) == [kind |-> "json", doc |-> json_dump(doc)]

LoadRaises_never(f) == FALSE

LoadRaises_unlessJson(f) == f.kind # "json"

\* json.load(f) raises JSONDecodeError on a file that exists and does not
\* parse; CheckpointManager.__init__ lets it through
LoadRaises(f) == f.kind = "corrupt"

\* the file exists: json.load(f) of what json.dump(self.checkpoints, f)
\* wrote; no file: the default dict
_load_checkpoints(f) ==
    IF f.kind = "absent" THEN EmptyCheckpoints ELSE json_load(f.doc)

\* metadata: a dict, as its set of <<key, value>> items
NoMetadata == {}
ErrorMetadata(msg) == {<<"error", msg>>}

StepRecord(status, t, metadata) ==
    [status |-> status, timestamp |-> t, metadata |-> metadata]

save_checkpoint_alwaysLast(ck, step, status, metadata, t) ==
    [last_completed_step |-> step,
     steps |-> [s \in (DOMAIN ck.steps) \cup {step} |->
                   IF s = step THEN StepRecord(status, t, metadata)
                   ELSE ck.steps[s]],
     last_updated |-> t]

\* The in-memory part of save_checkpoint
save_checkpoint(ck, step, status, metadata, t) ==
    [last_completed_step |->
         IF status = "completed" THEN step ELSE ck.last_completed_step,
     steps |-> [s \in (DOMAIN ck.steps) \cup {step} |->
                   IF s = step THEN StepRecord(status, t, metadata)
                   ELSE ck.steps[s]],
     last_updated |-> t]

get_last_successful_step(ck) == ck.last_completed_step

should_skip_step_never(ck, step) == FALSE

should_skip_step_running(ck, step) ==
    step \in DOMAIN ck.steps /\ ck.steps[step].status \in {"completed", "running"}

should_skip_step_failed(ck, step) ==
    step \in DOMAIN ck.steps /\ ck.steps[step].status \in {"completed", "failed"}

should_skip_step(ck, step) ==
    step \in DOMAIN ck.steps /\ ck.steps[step].status = "completed"

\* status of a step in a document, "pending" when it has no entry
StatusOf(ck, step) ==
    IF step \in DOMAIN ck.steps THEN ck.steps[step].status ELSE "pending"

(***************************************************************************)
(* The write of save_checkpoint: the in-memory update and open(file, 'w'), *)
(* which truncates the file; WriteFile is json.dump and the close.         *)
(***************************************************************************)
BeginSave(step, status, metadata, next) ==
    /\ checkpoints' = save_checkpoint(checkpoints, step, status, metadata, now)
    /\ now' = now + 1
    /\ file' = TruncatedFile
    /\ pc' = "saving"
    /\ cont' = next

\* json.dump raises TypeError on a value that is no JSON type: qa_stats as
\* generate_stats_report builds it holds numpy integers unless the count table
\* is empty
Serializable(ck) ==
    \A s \in DOMAIN ck.steps : <<"qa_stats", "numpy">> \notin ck.steps[s].metadata

\* json.dump(self.checkpoints, f, indent=2) and the close of the file. When
\* json.dump raises, the file stays as far as it was written, and the
\* exception reaches the except clause of run_postprocessing_pipeline, the
\* only caller that saves such metadata: it returns False.
WriteFile ==
    /\ pc = "saving"
    /\ IF Serializable(checkpoints)
       THEN /\ file' = JsonFile(checkpoints)
            /\ pc' = cont
            /\ UNCHANGED success
       ELSE /\ file' = TruncatedFile
            /\ pc' = "post_ret"
            /\ success' = FALSE
    /\ UNCHANGED <<now, runs, checkpoints, stepIdx, cont, exc, exitCode, summary>>
    /\ UNCHANGED <<argVars, preVars, ghostVars>>
    /\ UNCHANGED storeVars
    /\ UNCHANGED runGhosts
    /\ UNCHANGED log
    /\ UNCHANGED <<monVars, call>>

(***************************************************************************)
(* bulkRNASeq/main.py                                                      *)
(***************************************************************************)
Modes == {"preprocessing", "postprocessing", "pre_post"}

\* utils/check.py, check_config: the sections a configuration must have
RequiredSections ==
    {"input", "output", "genome", "aligners", "parameters", "pipeline_steps"}

check_config(config) == RequiredSections \subseteq config

\* configuration files explored: complete, without input, without aligners
ConfigChoices ==
    {RequiredSections, RequiredSections \ {"input"},
     RequiredSections \ {"aligners"}}

\* lines 70-109 of main(): load_config, then the command-line overrides;
\* parameters is added when the file has none, and nothing is validated
MainConfig(config) == config \cup {"sample", "parameters"}

\* exit statuses: sys.exit(0), sys.exit(1) (also an uncaught exception), a
\* process ended by SIGKILL; Running while the process has not ended
ExitOk == 0
ExitError == 1
ExitKilled == 128 + 9
Running == -1

\* the process ends: its memory is gone, its exit status is left
Exit(code) ==
    /\ pc' = "idle"
    /\ exitCode' = code
    /\ checkpoints' = EmptyCheckpoints
    /\ stepIdx' = 1
    /\ cont' = "idle"
    /\ exc' = ""
    /\ success' = FALSE
    /\ aligners' = <<>>
    /\ selected_aligners' = <<>>
    /\ alignIdx' = 1
    /\ gtf_file' = FALSE
    /\ stats' = {}
    /\ visited' = {}
    /\ produced' = {}
    /\ log' = <<>>

\* --restart-from choices, and None when the flag is not given
CanonicalOrder == <<"fastqc", "alignment", "quantification", "multiqc">>
RestartChoices == {None} \cup {CanonicalOrder[i] : i \in 1..Len(CanonicalOrder)}

Steps_reversed(m) ==
    CASE m = "preprocessing"  -> <<"preprocessing">>
      [] m = "postprocessing" -> <<"postprocessing">>
      [] OTHER                -> <<"postprocessing", "preprocessing">>

\* the steps main() hands to run_pipeline_step, in order
Steps(m) ==
    CASE m = "preprocessing"  -> <<"preprocessing">>
      [] m = "postprocessing" -> <<"postprocessing">>
      [] OTHER                -> <<"preprocessing", "postprocessing">>

OrchSteps == {"preprocessing", "postprocessing"}

\* the analyses run_postprocessing_pipeline checkpoints by name
PostSteps == {"eda", "qa", "kallisto", "enrichment"}

\* the step postprocessing/step_runner.py records under its own name
DeseqSteps == {"deseq"}

AllSteps == OrchSteps \cup PostSteps \cup DeseqSteps

CurrentStep == Steps(mode)[stepIdx]

StatusAtLoad(f) == [s \in AllSteps |-> StatusOf(_load_checkpoints(f), s)]

ResetGhosts(f) ==
    /\ executed' = {}
    /\ skipped' = {}
    /\ atStart' = StatusAtLoad(f)
    /\ killedIn' = None
    /\ failedStep' = None
    /\ toolFailed' = FALSE
    /\ fileAtStart' = f.kind
    /\ visited' = {}
    /\ produced' = {}
    /\ log' = <<>>

\* main(): parse the arguments, build the configuration, construct the
\* CheckpointManager (which loads the file; json.load raises on a file that
\* does not parse, outside any try block).
MainInvoke ==
    /\ pc = "idle"
    /\ runs < MaxRuns
    /\ \E m \in Modes, rf \in RestartChoices, config \in ConfigChoices :
          /\ mode' = m
          /\ restart_from' = rf
          /\ sections' = MainConfig(config)
    /\ entry' = "main"
    /\ resume' = FALSE
    /\ runs' = runs + 1
    /\ IF LoadRaises(file)
       THEN Exit(ExitError)
       ELSE /\ pc' = "step"
            /\ exitCode' = Running
            /\ checkpoints' = _load_checkpoints(file)
            /\ UNCHANGED <<stepIdx, cont, exc, success, preVars>>
    /\ ResetGhosts(file)
    /\ UNCHANGED <<file, now, continue_on_error, has_mgr, summary>>
    /\ UNCHANGED storeVars
    /\ UNCHANGED <<monVars, call>>

(***************************************************************************)
(* pipeline/step_runner.py: run_pipeline_step                              *)
(***************************************************************************)

\* positional parameters the runner of a pipeline type accepts:
\* run_preprocessing_pipeline(config, checkpoint_mgr=None, sample_name=None),
\* run_postprocessing_pipeline(config, checkpoint_mgr=None)
RunnerParams(pipeline_type) ==
    IF pipeline_type = "preprocessing" THEN 3 ELSE 2

\* pipeline_runner(config, checkpoint_mgr, sample_name): three positional
\* arguments; Python raises TypeError when the runner accepts fewer.
CallRaisesTypeError(pipeline_type) == 3 > RunnerParams(pipeline_type)

TypeErrorMsg ==
    "run_postprocessing_pipeline() takes from 1 to 2 positional arguments but 3 were given"
StepFailedMsg(step) ==
    IF step = "preprocessing" THEN "Pipeline step preprocessing failed"
    ELSE "Pipeline step postprocessing failed"

SkipStep_resave(step) ==
    BeginSave(step, "completed", NoMetadata, "stepdone")

\* lines 75-77: log that the step is skipped and return
SkipStep(step) ==
    /\ pc' = "stepdone"
    /\ UNCHANGED <<file, now, checkpoints, cont>>

\* lines 75-80: skip a completed step, else record it running
RunStepBegin ==
    /\ pc = "step"
    /\ IF should_skip_step(checkpoints, CurrentStep)
       THEN /\ skipped' = skipped \cup {CurrentStep}
            /\ SkipStep(CurrentStep)
       ELSE /\ BeginSave(CurrentStep, "running", NoMetadata, "body")
            /\ UNCHANGED skipped
    /\ UNCHANGED <<runs, stepIdx, exc, exitCode, summary, success>>
    /\ UNCHANGED <<argVars, preVars>>
    /\ UNCHANGED <<executed, atStart, killedIn, failedStep, toolFailed>>
    /\ UNCHANGED storeVars
    /\ UNCHANGED runGhosts
    /\ UNCHANGED log
    /\ UNCHANGED <<monVars, call>>

\* lines 94-99: look the runner up and call it
RunStepDispatch ==
    /\ pc = "body"
    /\ executed' = executed \cup {CurrentStep}
    /\ IF CallRaisesTypeError(CurrentStep)
       THEN pc' = "except" /\ exc' = TypeErrorMsg
       ELSE pc' = "pre_setup" /\ UNCHANGED exc
    /\ UNCHANGED <<envVars, checkpoints, stepIdx, cont, exitCode, summary,
                   success>>
    /\ UNCHANGED <<argVars, preVars>>
    /\ UNCHANGED <<skipped, atStart, killedIn, failedStep, toolFailed>>
    /\ UNCHANGED storeVars
    /\ UNCHANGED runGhosts
    /\ UNCHANGED log
    /\ UNCHANGED <<monVars, call>>

\* lines 99-106: the runner returned
RunStepReturn ==
    /\ pc = "ret"
    /\ entry = "main"
    /\ IF success
       THEN /\ BeginSave(CurrentStep, "completed", NoMetadata, "stepdone")
            /\ UNCHANGED exc
       ELSE /\ pc' = "except"
            /\ exc' = StepFailedMsg(CurrentStep)
            /\ UNCHANGED <<file, now, checkpoints, cont>>
    /\ UNCHANGED <<runs, stepIdx, exitCode, summary, success>>
    /\ UNCHANGED <<argVars, preVars, ghostVars>>
    /\ UNCHANGED storeVars
    /\ UNCHANGED runGhosts
    /\ UNCHANGED log
    /\ UNCHANGED <<monVars, call>>

OnException_KeepRunning(step, msg) ==
    BeginSave(step, "running", ErrorMetadata(msg), "raised")

\* lines 108-111: record the failure, then re-raise
OnException(step, msg) ==
    BeginSave(step, "failed", ErrorMetadata(msg), "raised")

RunStepExcept ==
    /\ pc = "except"
    /\ OnException(CurrentStep, exc)
    /\ failedStep' = CurrentStep
    /\ UNCHANGED <<runs, stepIdx, exc, exitCode, summary, success>>
    /\ UNCHANGED <<argVars, preVars>>
    /\ UNCHANGED <<executed, skipped, atStart, killedIn, toolFailed>>
    /\ UNCHANGED storeVars
    /\ UNCHANGED runGhosts
    /\ UNCHANGED log
    /\ UNCHANGED <<monVars, call>>

(***************************************************************************)
(* bulkRNASeq/main.py: main, after the step runner returned or raised      *)
(***************************************************************************)
\* lines 120-133: the call returned; run the next step of the mode
MainStepDone ==
    /\ pc = "stepdone"
    /\ IF stepIdx < Len(Steps(mode))
       THEN pc' = "step" /\ stepIdx' = stepIdx + 1
       ELSE pc' = "report" /\ UNCHANGED stepIdx
    /\ UNCHANGED <<envVars, checkpoints, cont, exc, exitCode, summary, success>>
    /\ UNCHANGED <<argVars, preVars, ghostVars>>
    /\ UNCHANGED storeVars
    /\ UNCHANGED runGhosts
    /\ UNCHANGED log
    /\ UNCHANGED <<monVars, call>>

\* lines 135-155: success is True: write the report, sys.exit(0)
MainReport ==
    /\ pc = "report"
    /\ Exit(ExitOk)
    /\ UNCHANGED <<envVars, summary>>
    /\ UNCHANGED <<argVars, ghostVars>>
    /\ UNCHANGED storeVars
    /\ UNCHANGED fileAtStart
    /\ UNCHANGED <<monVars, call>>

MainExcept_Continue ==
    /\ pc' = "stepdone"
    /\ UNCHANGED <<checkpoints, stepIdx, cont, exc, exitCode, success, preVars,
                   visited, produced, log>>

MainExcept_Exit == Exit(ExitError)

\* lines 160-162: the exception of a step ends the run, sys.exit(1)
MainExcept ==
    /\ pc = "raised"
    /\ MainExcept_Exit
    /\ UNCHANGED <<envVars, summary>>
    /\ UNCHANGED <<argVars, ghostVars>>
    /\ UNCHANGED storeVars
    /\ UNCHANGED fileAtStart
    /\ UNCHANGED <<monVars, call>>

(***************************************************************************)
(* preprocessing/pipeline_runner.py: run_preprocessing_pipeline            *)
(***************************************************************************)
\* config['aligners'] sections explored (the keys, in configuration order)
AlignersSections ==
    {<<"hisat2">>, <<"salmon", "hisat2">>, <<"hisat2", "kallisto">>}

\* the sections run_preprocessing_pipeline subscripts (KeyError when one is
\* absent): config['input'], config['output'], config['genome']
SubscriptedSections == {"input", "output", "genome"}

\* config['parameters'].get('aligner'): None when neither the file nor
\* --aligner sets it
AlignerParams == {None, "kallisto"}

Range(seq) == {seq[i] : i \in 1..Len(seq)}

\* lines 148-162
SelectedAligners(multi_aligner, aligner, section) ==
    IF multi_aligner THEN section
    ELSE IF aligner = None THEN <<"hisat2">> ELSE <<aligner>>

\* position of a step in the canonical order, 0 when it is not one
Pos(step) ==
    IF \E i \in 1..Len(CanonicalOrder) : CanonicalOrder[i] = step
    THEN CHOOSE i \in 1..Len(CanonicalOrder) : CanonicalOrder[i] = step
    ELSE 0

run_fastqc_step_restartOnly(rf) == rf \notin {"quantification", "multiqc"}

\* lines 100-119: the flags the restart point leaves set
run_fastqc_step(rf) == rf \notin {"alignment", "quantification", "multiqc"}
run_alignment_step(rf) == rf \notin {"quantification", "multiqc"}
run_quantification_step(rf) == rf # "multiqc"

\* lines 41-139, 148-169: resolve the paths, find the FASTQ file of the
\* sample (FileNotFoundError or IndexError when there is none: the outer
\* except returns False), choose the aligners, start the statistics
PreSetup ==
    /\ pc = "pre_setup"
    /\ \E found \in BOOLEAN :
          IF found /\ SubscriptedSections \subseteq sections
          THEN /\ \E section \in IF "aligners" \in sections
                                 THEN AlignersSections ELSE {<<>>},
                     multi \in BOOLEAN,
                     aligner \in AlignerParams, gtf \in BOOLEAN :
                     /\ aligners' = section
                     /\ selected_aligners' =
                            SelectedAligners(multi, aligner, section)
                     /\ gtf_file' = gtf
               /\ alignIdx' = 1
               /\ stats' = {}
               /\ pc' = "fastqc"
               /\ UNCHANGED <<success, toolFailed>>
          ELSE /\ success' = FALSE
               /\ toolFailed' = TRUE
               /\ pc' = "ret"
               /\ UNCHANGED preVars
    /\ UNCHANGED <<envVars, checkpoints, stepIdx, cont, exc, exitCode, summary>>
    /\ UNCHANGED argVars
    /\ UNCHANGED <<executed, skipped, atStart, killedIn, failedStep>>
    /\ UNCHANGED storeVars
    /\ UNCHANGED runGhosts
    /\ UNCHANGED log
    /\ UNCHANGED <<monVars, call>>

\* lines 121-143: run_fastqc unless the restart point or --skip-fastqc with
\* existing outputs turns it off
PreFastqc ==
    /\ pc = "fastqc"
    /\ \E fastqc_already_done \in BOOLEAN :
          IF run_fastqc_step(restart_from) /\ ~fastqc_already_done
          THEN /\ executed' = executed \cup {"fastqc"}
               /\ log' = Append(log, <<"fastqc", None>>)
          ELSE UNCHANGED <<executed, log>>
    /\ pc' = "align"
    /\ UNCHANGED <<envVars, checkpoints, stepIdx, cont, exc, exitCode, summary,
                   success>>
    /\ UNCHANGED <<argVars, preVars>>
    /\ UNCHANGED <<skipped, atStart, killedIn, failedStep, toolFailed>>
    /\ UNCHANGED storeVars
    /\ UNCHANGED runGhosts
    /\ UNCHANGED <<monVars, call>>

\* What one pass of the aligner loop can do for an aligner:
\*   "continue"   no configuration, index files not found, unsupported name
\*   "raise"      an exception before the tool is started (resolve_path(None);
\*                run_salmon_quant called with keywords it does not take)
\*   "tool_raise" the tool wrapper was entered and raised (run_kallisto_quant
\*                lists the FASTQ file as a directory)
\*   "ok"         align_reads returned the BAM file
AlignerOutcomes(name, section) ==
    IF name \notin Range(section) THEN {"continue"}
    ELSE CASE name = "hisat2"   -> {"continue", "raise", "tool_raise", "ok"}
           [] name = "kallisto" -> {"raise", "tool_raise"}
           [] name = "salmon"   -> {"raise"}
           [] OTHER             -> {"continue"}

StatsEntry_always(name, out) == {<<name, "bam_file">>}

\* lines 251-254: stats['aligners'][aligner_name] = {'bam_file': bam_file},
\* reached when the aligner returned
StatsEntry(name, out) ==
    IF out = "ok" THEN {<<name, "bam_file">>} ELSE {}

AfterAligner_abort(out) ==
    IF out \in {"raise", "tool_raise"} THEN "ret" ELSE "align"

\* every "continue" and the except clause of lines 276-278 go on with the
\* next aligner of the list
AfterAligner(out) == "align"

\* lines 171-278: one pass of the aligner loop, quantification included
PreAlign ==
    /\ pc = "align"
    /\ IF ~run_alignment_step(restart_from) \/ alignIdx > Len(selected_aligners)
       THEN /\ pc' = "stats"
            /\ UNCHANGED <<alignIdx, stats, executed, toolFailed, visited,
                           produced, log>>
       ELSE LET name == selected_aligners[alignIdx] IN
            /\ alignIdx' = alignIdx + 1
            /\ visited' = visited \cup {name}
            /\ \E out \in AlignerOutcomes(name, aligners), counts_ok \in BOOLEAN :
                  LET quant == out = "ok" /\ run_quantification_step(restart_from)
                                          /\ gtf_file
                  IN
                  /\ executed' = executed
                        \cup (IF out \in {"tool_raise", "ok"} THEN {"alignment"} ELSE {})
                        \cup (IF quant THEN {"quantification"} ELSE {})
                  /\ pc' = AfterAligner(out)
                  /\ log' = log
                        \o (IF out \in {"tool_raise", "ok"}
                            THEN <<(<<"alignment", name>>)>> ELSE <<>>)
                        \o (IF quant
                            THEN <<(<<"quantification", name>>)>> ELSE <<>>)
                  /\ produced' = IF out = "ok" THEN produced \cup {name}
                                  ELSE produced
                  /\ stats' = stats
                        \cup StatsEntry(name, out)
                        \cup (IF quant /\ counts_ok
                              THEN {<<name, "counts_file">>} ELSE {})
                  /\ toolFailed' = (toolFailed \/ out \in {"raise", "tool_raise"}
                                               \/ (quant /\ ~counts_ok))
    /\ UNCHANGED <<envVars, checkpoints, stepIdx, cont, exc, exitCode, summary,
                   success>>
    /\ UNCHANGED <<argVars, aligners, selected_aligners, gtf_file>>
    /\ UNCHANGED <<skipped, atStart, killedIn, failedStep>>
    /\ UNCHANGED storeVars
    /\ UNCHANGED fileAtStart
    /\ UNCHANGED <<monVars, call>>

\* lines 280-284: write pipeline_stats.json
PreStats ==
    /\ pc = "stats"
    /\ summary' = stats
    /\ pc' = "multiqc"
    /\ UNCHANGED <<envVars, checkpoints, stepIdx, cont, exc, exitCode, success>>
    /\ UNCHANGED <<argVars, preVars, ghostVars>>
    /\ UNCHANGED storeVars
    /\ UNCHANGED runGhosts
    /\ UNCHANGED log
    /\ UNCHANGED <<monVars, call>>

\* lines 286-296: MultiQC when the configuration lists it; return True
PreMultiqc ==
    /\ pc = "multiqc"
    /\ \E enabled \in BOOLEAN :
          IF enabled
          THEN /\ executed' = executed \cup {"multiqc"}
               /\ log' = Append(log, <<"multiqc", None>>)
          ELSE UNCHANGED <<executed, log>>
    /\ success' = TRUE
    /\ pc' = "ret"
    /\ UNCHANGED <<envVars, checkpoints, stepIdx, cont, exc, exitCode, summary>>
    /\ UNCHANGED <<argVars, preVars>>
    /\ UNCHANGED <<skipped, atStart, killedIn, failedStep, toolFailed>>
    /\ UNCHANGED storeVars
    /\ UNCHANGED runGhosts
    /\ UNCHANGED <<monVars, call>>

(***************************************************************************)
(* preprocessing/main.py: main                                             *)
(***************************************************************************)

\* lines 10-25: run_preprocessing_pipeline(config, logger, args.resume): the
\* logger is bound to checkpoint_mgr and the flag to sample_name; no
\* checkpoint file is read
PreMainInvoke ==
    /\ pc = "idle"
    /\ runs < MaxRuns
    /\ \E r \in BOOLEAN, rf \in RestartChoices :
          /\ resume' = r
          /\ restart_from' = rf
    /\ sections' = RequiredSections
    /\ entry' = "pre_main"
    /\ runs' = runs + 1
    /\ pc' = "pre_setup"
    /\ exitCode' = Running
    /\ ResetGhosts(file)
    /\ UNCHANGED <<file, now, mode, continue_on_error, has_mgr, checkpoints,
                   stepIdx, cont, exc, summary, success, preVars>>
    /\ UNCHANGED storeVars
    /\ UNCHANGED <<monVars, call>>

\* the return value is dropped and main returns: exit status 0
PreMainReturn ==
    /\ pc = "ret"
    /\ entry = "pre_main"
    /\ Exit(ExitOk)
    /\ UNCHANGED <<envVars, summary>>
    /\ UNCHANGED <<argVars, ghostVars>>
    /\ UNCHANGED storeVars
    /\ UNCHANGED fileAtStart
    /\ UNCHANGED <<monVars, call>>

(***************************************************************************)
(* pipeline/pipeline_runner.py: run_full_pipeline                          *)
(***************************************************************************)

\* lines 7-10: CheckpointManager(config) hands the configuration dict to
\* Path(), which raises TypeError before a checkpoint is read or cleared
FullInvoke ==
    /\ pc = "idle"
    /\ runs < MaxRuns
    /\ \E r \in BOOLEAN : resume' = r
    /\ entry' = "full"
    /\ runs' = runs + 1
    /\ Exit(ExitError)
    /\ ResetGhosts(file)
    /\ UNCHANGED <<file, now, mode, restart_from, continue_on_error, has_mgr,
                   summary>>
    /\ UNCHANGED storeVars
    /\ UNCHANGED sections
    /\ UNCHANGED <<monVars, call>>

(***************************************************************************)
(* postprocessing/pipeline_runner.py: run_postprocessing_pipeline          *)
(***************************************************************************)

\* "not checkpoint_mgr or not checkpoint_mgr.should_skip_step(step)"
PostShouldRun(step) == ~has_mgr \/ ~should_skip_step(checkpoints, step)

\* "return False", from a check or from the outer except clause
PostReturnFalse(step) ==
    /\ success' = FALSE
    /\ pc' = "post_ret"
    /\ failedStep' = step
    /\ toolFailed' = TRUE

\* lines 30-50: the counts file (or its alternative name) must exist
PostSetup ==
    /\ pc = "post_setup"
    /\ \E counts_found \in BOOLEAN :
          IF counts_found
          THEN pc' = "eda" /\ UNCHANGED <<success, failedStep, toolFailed>>
          ELSE PostReturnFalse(None)
    /\ UNCHANGED <<envVars, checkpoints, stepIdx, cont, exc, exitCode, summary>>
    /\ UNCHANGED <<argVars, preVars>>
    /\ UNCHANGED <<executed, skipped, atStart, killedIn>>
    /\ UNCHANGED storeVars
    /\ UNCHANGED runGhosts
    /\ UNCHANGED log
    /\ UNCHANGED <<monVars, call>>

\* lines 52-62: exploratory data analysis
PostEda ==
    /\ pc = "eda"
    /\ IF PostShouldRun("eda")
       THEN /\ executed' = executed \cup {"eda"}
            /\ UNCHANGED skipped
            /\ \E eda_ok \in BOOLEAN :
                  IF ~eda_ok
                  THEN /\ PostReturnFalse("eda")
                       /\ UNCHANGED <<file, now, checkpoints, cont>>
                  ELSE /\ IF has_mgr
                          THEN BeginSave("eda", "completed", NoMetadata, "qa")
                          ELSE /\ pc' = "qa"
                               /\ UNCHANGED <<file, now, checkpoints, cont>>
                       /\ UNCHANGED <<success, failedStep, toolFailed>>
       ELSE /\ skipped' = skipped \cup {"eda"}
            /\ pc' = "qa"
            /\ UNCHANGED <<file, now, checkpoints, cont, success, executed,
                           failedStep, toolFailed>>
    /\ UNCHANGED <<runs, stepIdx, exc, exitCode, summary>>
    /\ UNCHANGED <<argVars, preVars>>
    /\ UNCHANGED <<atStart, killedIn>>
    /\ UNCHANGED storeVars
    /\ UNCHANGED runGhosts
    /\ UNCHANGED log
    /\ UNCHANGED <<monVars, call>>

\* lines 64-85: load the count table, then the quality metrics; the
\* checkpoint carries qa_stats as metadata
PostQa ==
    /\ pc = "qa"
    /\ \E table_ok \in BOOLEAN, qa_ok \in BOOLEAN, stats_kind \in {"numpy", "plain"} :
          IF ~table_ok
          THEN /\ PostReturnFalse(None)
               /\ UNCHANGED <<file, now, checkpoints, cont, executed, skipped>>
          ELSE IF PostShouldRun("qa")
          THEN /\ executed' = executed \cup {"qa"}
               /\ UNCHANGED skipped
               /\ IF ~qa_ok
                  THEN /\ PostReturnFalse("qa")
                       /\ UNCHANGED <<file, now, checkpoints, cont>>
                  ELSE /\ IF has_mgr
                          THEN BeginSave("qa", "completed",
                                         {<<"qa_stats", stats_kind>>}, "kallisto")
                          ELSE /\ pc' = "kallisto"
                               /\ UNCHANGED <<file, now, checkpoints, cont>>
                       /\ UNCHANGED <<success, failedStep, toolFailed>>
          ELSE /\ skipped' = skipped \cup {"qa"}
               /\ pc' = "kallisto"
               /\ UNCHANGED <<file, now, checkpoints, cont, success, executed,
                              failedStep, toolFailed>>
    /\ UNCHANGED <<runs, stepIdx, exc, exitCode, summary>>
    /\ UNCHANGED <<argVars, preVars>>
    /\ UNCHANGED <<atStart, killedIn>>
    /\ UNCHANGED storeVars
    /\ UNCHANGED runGhosts
    /\ UNCHANGED log
    /\ UNCHANGED <<monVars, call>>

\* lines 87-144: the Kallisto analyses, when the abundance file is configured
\* and exists; an exception in them is logged and the pipeline goes on
PostKallisto ==
    /\ pc = "kallisto"
    /\ \E abundance_file \in BOOLEAN, out \in {"ok", "no_sample_cols", "raise"} :
          IF abundance_file /\ PostShouldRun("kallisto")
          THEN /\ executed' = executed \cup {"kallisto"}
               /\ UNCHANGED skipped
               /\ IF out = "ok" /\ has_mgr
                  THEN BeginSave("kallisto", "completed", NoMetadata, "enrichment")
                  ELSE /\ pc' = "enrichment"
                       /\ UNCHANGED <<file, now, checkpoints, cont>>
               /\ failedStep' = IF out = "raise" THEN "kallisto" ELSE failedStep
               /\ toolFailed' = (toolFailed \/ out = "raise")
          ELSE /\ skipped' = IF abundance_file
                             THEN skipped \cup {"kallisto"} ELSE skipped
               /\ pc' = "enrichment"
               /\ UNCHANGED <<file, now, checkpoints, cont, executed,
                              failedStep, toolFailed>>
    /\ UNCHANGED <<runs, stepIdx, exc, exitCode, summary, success>>
    /\ UNCHANGED <<argVars, preVars>>
    /\ UNCHANGED <<atStart, killedIn>>
    /\ UNCHANGED storeVars
    /\ UNCHANGED runGhosts
    /\ UNCHANGED log
    /\ UNCHANGED <<monVars, call>>

\* lines 146-186: GO enrichment when requested; perform_go_enrichment returns
\* its error as a string, which is written to a file; no checkpoint is saved
PostEnrichment ==
    /\ pc = "enrichment"
    /\ \E go_enrichment \in BOOLEAN, out \in {"ok", "error_string", "raise"} :
          IF go_enrichment /\ PostShouldRun("enrichment")
          THEN /\ executed' = executed \cup {"enrichment"}
               /\ UNCHANGED skipped
               /\ IF out = "raise"
                  THEN PostReturnFalse("enrichment")
                  ELSE /\ pc' = "post_report"
                       /\ failedStep' = IF out = "ok" THEN failedStep
                                        ELSE "enrichment"
                       /\ toolFailed' = (toolFailed \/ out # "ok")
                       /\ UNCHANGED success
          ELSE /\ skipped' = IF go_enrichment
                             THEN skipped \cup {"enrichment"} ELSE skipped
               /\ pc' = "post_report"
               /\ UNCHANGED <<success, executed, failedStep, toolFailed>>
    /\ UNCHANGED <<envVars, checkpoints, stepIdx, cont, exc, exitCode, summary>>
    /\ UNCHANGED <<argVars, preVars>>
    /\ UNCHANGED <<atStart, killedIn>>
    /\ UNCHANGED storeVars
    /\ UNCHANGED runGhosts
    /\ UNCHANGED log
    /\ UNCHANGED <<monVars, call>>

\* lines 188-300: network analysis when requested, the final report,
\* "return True"; an exception returns False
PostReport ==
    /\ pc = "post_report"
    /\ \E report_ok \in BOOLEAN :
          IF report_ok
          THEN /\ success' = TRUE
               /\ pc' = "post_ret"
               /\ executed' = executed \cup {"report"}
               /\ UNCHANGED <<failedStep, toolFailed>>
          ELSE /\ PostReturnFalse("report")
               /\ executed' = executed \cup {"report"}
    /\ UNCHANGED <<envVars, checkpoints, stepIdx, cont, exc, exitCode, summary>>
    /\ UNCHANGED <<argVars, preVars>>
    /\ UNCHANGED <<skipped, atStart, killedIn>>
    /\ UNCHANGED storeVars
    /\ UNCHANGED runGhosts
    /\ UNCHANGED log
    /\ UNCHANGED <<monVars, call>>

(***************************************************************************)
(* postprocessing/main.py: main                                            *)
(***************************************************************************)

\* lines 27-83: the flags are parsed, parameters.fail_fast is set from
\* --continue-on-error, and run_postprocessing_pipeline(config) is called
\* without a checkpoint manager
PostMainInvoke ==
    /\ pc = "idle"
    /\ runs < MaxRuns
    /\ \E r \in BOOLEAN, coe \in BOOLEAN :
          /\ resume' = r
          /\ continue_on_error' = coe
    /\ entry' = "post_main"
    /\ has_mgr' = FALSE
    /\ runs' = runs + 1
    /\ pc' = "post_setup"
    /\ exitCode' = Running
    /\ ResetGhosts(file)
    /\ UNCHANGED <<file, now, mode, restart_from, checkpoints, stepIdx, cont,
                   exc, summary, success, preVars>>
    /\ UNCHANGED storeVars
    /\ UNCHANGED sections
    /\ UNCHANGED <<monVars, call>>

\* A caller that constructs CheckpointManager(checkpoint_dir) and calls
\* run_postprocessing_pipeline(config, checkpoint_mgr)
PostApiInvoke ==
    /\ pc = "idle"
    /\ runs < MaxRuns
    /\ entry' = "post_api"
    /\ has_mgr' = TRUE
    /\ runs' = runs + 1
    /\ IF LoadRaises(file)
       THEN Exit(ExitError)
       ELSE /\ pc' = "post_setup"
            /\ exitCode' = Running
            /\ checkpoints' = _load_checkpoints(file)
            /\ UNCHANGED <<stepIdx, cont, exc, success, preVars>>
    /\ ResetGhosts(file)
    /\ UNCHANGED <<file, now, mode, resume, restart_from, continue_on_error,
                   summary>>
    /\ UNCHANGED storeVars
    /\ UNCHANGED sections
    /\ UNCHANGED <<monVars, call>>

\* postprocessing/main.py lines 85-90: exit 0 when the pipeline returned
\* True, 1 when it returned False
PostReturn ==
    /\ pc = "post_ret"
    /\ Exit(IF success THEN ExitOk ELSE ExitError)
    /\ UNCHANGED <<envVars, summary>>
    /\ UNCHANGED <<argVars, ghostVars>>
    /\ UNCHANGED storeVars
    /\ UNCHANGED fileAtStart
    /\ UNCHANGED <<monVars, call>>

(***************************************************************************)
(* The process is ended from outside (SIGKILL, power loss) at any point.   *)
(***************************************************************************)
BodyPcs == {"body", "pre_setup", "fastqc", "align", "stats", "multiqc", "ret"}

Kill ==
    /\ pc # "idle"
    /\ Exit(ExitKilled)
    /\ killedIn' = IF entry = "main" /\ pc \in BodyPcs THEN CurrentStep ELSE None
    /\ UNCHANGED <<envVars, summary>>
    /\ UNCHANGED argVars
    /\ UNCHANGED <<executed, skipped, atStart, failedStep, toolFailed>>
    /\ UNCHANGED storeVars
    /\ UNCHANGED fileAtStart
    /\ UNCHANGED <<monVars, call>>

\* the monitor processes: upload.py starts one when it is imported
Monitors == {"monitor1", "monitor2"}

NoCall == [op |-> "none"]

NoRequest == [op |-> "none", step |-> None, status |-> None, metadata |-> {}]

Init ==
    /\ file = NoFile
    /\ now = 1
    /\ runs = 0
    /\ pc = "idle"
    /\ entry = "main"
    /\ mode = "preprocessing"
    /\ resume = FALSE
    /\ restart_from = None
    /\ continue_on_error = FALSE
    /\ has_mgr = FALSE
    /\ checkpoints = EmptyCheckpoints
    /\ stepIdx = 1
    /\ cont = "idle"
    /\ exc = ""
    /\ exitCode = Running
    /\ aligners = <<>>
    /\ selected_aligners = <<>>
    /\ alignIdx = 1
    /\ gtf_file = FALSE
    /\ stats = {}
    /\ summary = {}
    /\ success = FALSE
    /\ executed = {}
    /\ skipped = {}
    /\ atStart = StatusAtLoad(NoFile)
    /\ killedIn = None
    /\ failedStep = None
    /\ toolFailed = FALSE
    /\ sections = RequiredSections
    /\ log = <<>>
    /\ fileAtStart = "absent"
    /\ visited = {}
    /\ produced = {}
    /\ request = NoRequest
    /\ answer = FALSE
    /\ before = EmptyCheckpoints
    /\ lock_file = FALSE
    /\ uploads = 0
    /\ seen = [m \in Monitors |-> 0]
    /\ todo = [m \in Monitors |-> 0]
    /\ mon = [m \in Monitors |-> "sleep"]
    /\ call = NoCall

Next ==
    \/ MainInvoke
    \/ RunStepBegin
    \/ RunStepDispatch
    \/ RunStepReturn
    \/ RunStepExcept
    \/ WriteFile
    \/ MainStepDone
    \/ MainReport
    \/ MainExcept
    \/ PreSetup
    \/ PreFastqc
    \/ PreAlign
    \/ PreStats
    \/ PreMultiqc
    \/ PreMainInvoke
    \/ PreMainReturn
    \/ FullInvoke
    \/ Kill

Spec == Init /\ [][Next]_vars

(***************************************************************************)
(* utils/checkpoint.py: CheckpointManager used directly, one call at a     *)
(* time, by a process that constructs it on the checkpoint directory       *)
(***************************************************************************)
\* saves one process makes (the clock starts at 1)
MaxSaves == 3

\* step names, those of the step list of run_full_pipeline
StoreSteps == {"qc", "alignment"}

Statuses == {"running", "completed", "failed"}

\* the metadata the callers pass: none, {'error': str(e)}, and
\* {'qa_stats': ...} with numpy integers in it
MetadataChoices ==
    {NoMetadata, ErrorMetadata("boom"), {<<"qa_stats", "numpy">>}}

Request(op, step, status, metadata) ==
    [op |-> op, step |-> step, status |-> status, metadata |-> metadata]

clear_file_keep(f) == f

\* clear_checkpoints, lines 75-76: unlink the file if it exists
clear_file(f) == NoFile

\* CheckpointManager(checkpoint_dir): load the file
StoreOpen ==
    /\ pc = "idle"
    /\ runs < MaxRuns
    /\ entry' = "store"
    /\ runs' = runs + 1
    /\ request' = Request("open", None, None, {})
    /\ IF LoadRaises(file)
       THEN Exit(ExitError)
       ELSE /\ pc' = "store"
            /\ exitCode' = Running
            /\ checkpoints' = _load_checkpoints(file)
            /\ UNCHANGED <<stepIdx, cont, exc, success, preVars>>
    /\ ResetGhosts(file)
    /\ UNCHANGED <<file, now, mode, resume, restart_from, continue_on_error,
                   has_mgr, summary, answer, before>>
    /\ UNCHANGED sections
    /\ UNCHANGED <<monVars, call>>

\* save_checkpoint(step, status, metadata), lines 33-47: the in-memory
\* update, then open(file, 'w')
StoreSave ==
    /\ pc = "store"
    /\ now <= MaxSaves
    /\ \E step \in StoreSteps, status \in Statuses, metadata \in MetadataChoices :
          /\ request' = Request("save", step, status, metadata)
          /\ checkpoints' =
                 save_checkpoint(checkpoints, step, status, metadata, now)
    /\ before' = checkpoints
    /\ now' = now + 1
    /\ file' = TruncatedFile
    /\ pc' = "store_saving"
    /\ UNCHANGED <<runs, stepIdx, cont, exc, exitCode, summary, success, answer>>
    /\ UNCHANGED <<argVars, preVars, ghostVars, runGhosts>>
    /\ UNCHANGED log
    /\ UNCHANGED <<monVars, call>>

\* save_checkpoint, line 48: json.dump and the close; save returns, or the
\* TypeError of json.dump leaves the caller with the file as far as written
StoreWrite ==
    /\ pc = "store_saving"
    /\ IF Serializable(checkpoints)
       THEN /\ file' = JsonFile(checkpoints)
            /\ pc' = "store"
            /\ request' = [request EXCEPT !.op = "saved"]
            /\ UNCHANGED <<checkpoints, stepIdx, cont, exc, exitCode, success,
                           preVars, visited, produced, log>>
       ELSE /\ file' = TruncatedFile
            /\ request' = [request EXCEPT !.op = "save_raised"]
            /\ Exit(ExitError)
    /\ UNCHANGED <<now, runs, summary, answer, before>>
    /\ UNCHANGED <<argVars, ghostVars, fileAtStart>>
    /\ UNCHANGED <<monVars, call>>

\* should_skip_step(step)
StoreShouldSkip ==
    /\ pc = "store"
    /\ \E step \in StoreSteps :
          /\ request' = Request("should_skip", step, None, {})
          /\ answer' = should_skip_step(checkpoints, step)
    /\ UNCHANGED <<envVars, pc, checkpoints, stepIdx, cont, exc, exitCode,
                   summary, success, before>>
    /\ UNCHANGED <<argVars, preVars, ghostVars, runGhosts>>
    /\ UNCHANGED log
    /\ UNCHANGED <<monVars, call>>

\* clear_checkpoints()
StoreClear ==
    /\ pc = "store"
    /\ request' = Request("clear", None, None, {})
    /\ file' = clear_file(file)
    /\ checkpoints' = EmptyCheckpoints
    /\ UNCHANGED <<now, runs, pc, stepIdx, cont, exc, exitCode, summary,
                   success, answer, before>>
    /\ UNCHANGED <<argVars, preVars, ghostVars, runGhosts>>
    /\ UNCHANGED log
    /\ UNCHANGED <<monVars, call>>

NextStore ==
    \/ StoreOpen
    \/ StoreSave
    \/ StoreWrite
    \/ StoreShouldSkip
    \/ StoreClear
    \/ Kill

SpecStore == Init /\ [][NextStore]_vars

(***************************************************************************)
(* postprocessing/step_runner.py: run_deseq_step, called with a checkpoint *)
(* manager constructed on the checkpoint directory                         *)
(***************************************************************************)
DeseqInvoke ==
    /\ pc = "idle"
    /\ runs < MaxRuns
    /\ entry' = "deseq"
    /\ has_mgr' = TRUE
    /\ runs' = runs + 1
    /\ IF LoadRaises(file)
       THEN Exit(ExitError)
       ELSE /\ pc' = "deseq_begin"
            /\ exitCode' = Running
            /\ checkpoints' = _load_checkpoints(file)
            /\ UNCHANGED <<stepIdx, cont, exc, success, preVars>>
    /\ ResetGhosts(file)
    /\ UNCHANGED <<file, now, mode, resume, restart_from, continue_on_error,
                   summary, sections>>
    /\ UNCHANGED storeVars
    /\ UNCHANGED <<monVars, call>>

\* lines 15-16: save_checkpoint('deseq', 'running'), with no should_skip_step
\* before it
DeseqBegin ==
    /\ pc = "deseq_begin"
    /\ BeginSave("deseq", "running", NoMetadata, "deseq_body")
    /\ UNCHANGED <<runs, stepIdx, exc, exitCode, summary, success>>
    /\ UNCHANGED <<argVars, preVars, ghostVars, storeVars, runGhosts, log>>
    /\ UNCHANGED <<monVars, call>>

\* lines 18-37: the analysis; completed when it returns, failed with the
\* message when it raises
DeseqBody ==
    /\ pc = "deseq_body"
    /\ executed' = executed \cup {"deseq"}
    /\ \E analysis_ok \in BOOLEAN :
          IF analysis_ok
          THEN /\ BeginSave("deseq", "completed", NoMetadata, "deseq_ret")
               /\ success' = TRUE
               /\ UNCHANGED <<failedStep, toolFailed>>
          ELSE /\ BeginSave("deseq", "failed", ErrorMetadata("deseq"), "deseq_ret")
               /\ success' = FALSE
               /\ failedStep' = "deseq"
               /\ toolFailed' = TRUE
    /\ UNCHANGED <<runs, stepIdx, exc, exitCode, summary>>
    /\ UNCHANGED <<argVars, preVars, storeVars, runGhosts, log>>
    /\ UNCHANGED <<skipped, atStart, killedIn>>
    /\ UNCHANGED <<monVars, call>>

\* the function returns or re-raises to its caller, which ends
DeseqReturn ==
    /\ pc = "deseq_ret"
    /\ Exit(IF success THEN ExitOk ELSE ExitError)
    /\ UNCHANGED <<envVars, summary>>
    /\ UNCHANGED <<argVars, ghostVars, storeVars, fileAtStart>>
    /\ UNCHANGED <<monVars, call>>

NextPost ==
    \/ PostMainInvoke
    \/ PostApiInvoke
    \/ PostSetup
    \/ PostEda
    \/ PostQa
    \/ PostKallisto
    \/ PostEnrichment
    \/ PostReport
    \/ PostReturn
    \/ DeseqInvoke
    \/ DeseqBegin
    \/ DeseqBody
    \/ DeseqReturn
    \/ WriteFile
    \/ Kill

SpecPost == Init /\ [][NextPost]_vars

(***************************************************************************)
(* monitor.py: the watch loop and run_snakemake, one process per monitor;  *)
(* upload.py saves the uploaded files into the watched directory           *)
(***************************************************************************)
\* files uploaded
MaxUploads == 2

\* is_snakemake_running(): os.path.exists(LOCK_FILE)
is_snakemake_running == lock_file

\* upload.py, upload_file: a new .fq.gz file is written to the directory
Upload ==
    /\ uploads < MaxUploads
    /\ uploads' = uploads + 1
    /\ UNCHANGED <<lock_file, seen, todo, mon, call, pipelineVars>>

\* lines 60-66, 80: list the directory and take the files not seen before
\* (seen_files is local to the process, so its update at the end of the
\* iteration is made here)
MonCheck(m) ==
    /\ mon[m] = "sleep"
    /\ uploads > seen[m]
    /\ todo' = [todo EXCEPT ![m] = uploads - seen[m]]
    /\ seen' = [seen EXCEPT ![m] = uploads]
    /\ mon' = [mon EXCEPT ![m] = "for"]
    /\ UNCHANGED <<lock_file, uploads, call, pipelineVars>>

\* lines 67-77: the next new file: update the sample list and call
\* run_snakemake; after the last one, sleep
MonNextFile(m) ==
    /\ mon[m] = "for"
    /\ mon' = [mon EXCEPT ![m] = IF todo[m] > 0 THEN "is_running" ELSE "sleep"]
    /\ UNCHANGED <<lock_file, uploads, seen, todo, call, pipelineVars>>

\* lines 28-30: return when the lock file exists
MonIsRunning(m) ==
    /\ mon[m] = "is_running"
    /\ IF is_snakemake_running
       THEN /\ mon' = [mon EXCEPT ![m] = "for"]
            /\ todo' = [todo EXCEPT ![m] = todo[m] - 1]
       ELSE /\ mon' = [mon EXCEPT ![m] = "create_lock"]
            /\ UNCHANGED todo
    /\ UNCHANGED <<lock_file, uploads, seen, call, pipelineVars>>

\* lines 33-34: create the lock file
MonCreateLock(m) ==
    /\ mon[m] = "create_lock"
    /\ lock_file' = TRUE
    /\ mon' = [mon EXCEPT ![m] = "snakemake"]
    /\ UNCHANGED <<uploads, seen, todo, call, pipelineVars>>

\* lines 36-50: subprocess.run returns, or raises CalledProcessError
MonSnakemake(m) ==
    /\ mon[m] = "snakemake"
    /\ mon' = [mon EXCEPT ![m] = "finally"]
    /\ UNCHANGED <<lock_file, uploads, seen, todo, call, pipelineVars>>

\* lines 51-56: remove the lock file if it exists
MonFinally(m) ==
    /\ mon[m] = "finally"
    /\ lock_file' = FALSE
    /\ todo' = [todo EXCEPT ![m] = todo[m] - 1]
    /\ mon' = [mon EXCEPT ![m] = "for"]
    /\ UNCHANGED <<uploads, seen, call, pipelineVars>>

MonitorStep ==
    \E m \in Monitors :
        \/ MonCheck(m)
        \/ MonNextFile(m)
        \/ MonIsRunning(m)
        \/ MonCreateLock(m)
        \/ MonSnakemake(m)
        \/ MonFinally(m)

NextMonitor ==
    \/ Upload
    \/ MonitorStep

SpecMonitor == Init /\ [][NextMonitor]_vars

(***************************************************************************)
(* Configuration functions: preprocessing/aligner_factory.py,              *)
(* utils/config_handler.py and the sample substitution of                  *)
(* postprocessing/main.py.  Each action is one call; call records the      *)
(* arguments and what the call returned.                                   *)
(***************************************************************************)
\* --aligner choices=['hisat2', 'kallisto', 'salmon']
CliAligners == {"hisat2", "kallisto", "salmon"}

\* AlignerFactory.get_available_aligners
get_available_aligners(multi_aligner, aligner, section) ==
    IF multi_aligner THEN section
    ELSE IF aligner = None THEN <<"kallisto">> ELSE <<aligner>>

\* AlignerFactory.create_aligner, with AlignerBase.__init__: the result is
\* the class of the object made; the aligner's configuration is not read
create_aligner(aligner_name, config) ==
    IF aligner_name = "hisat2" THEN "Hisat2Aligner"
    ELSE IF aligner_name = "kallisto" THEN "KallistoAligner"
    ELSE None

\* AlignerBase.__init__ only calls dict.get on the configuration
create_aligner_raises(aligner_name, config) == FALSE

\* parameters.aligner values of the calls
AlignerArgs == {None} \cup CliAligners

\* aligner names passed to create_aligner
AlignerNames == CliAligners \cup {"star"}

\* the aligner's section of the configuration: its index entry present or not
AlignerConfigs == {[index |-> TRUE], [index |-> FALSE]}

CallAvailable ==
    \E multi \in BOOLEAN, aligner \in AlignerArgs,
       section \in AlignersSections \cup {<<>>} :
        /\ call' = [op |-> "available", multi_aligner |-> multi,
                    aligner |-> aligner, section |-> section,
                    factory |-> get_available_aligners(multi, aligner, section),
                    runner |-> SelectedAligners(multi, aligner, section)]
        /\ UNCHANGED <<pipelineVars, monVars>>

CallCreate ==
    \E name \in AlignerNames, config \in AlignerConfigs :
        /\ call' = [op |-> "create", name |-> name, config |-> config,
                    raised |-> create_aligner_raises(name, config),
                    result |-> create_aligner(name, config)]
        /\ UNCHANGED <<pipelineVars, monVars>>

\* a string is the sequence of its pieces; the token is one piece
Token == "${sample}"
Strings == {<<Token, "_counts.tsv">>, <<"results/", Token>>, <<"counts.tsv">>}
SampleArgs == {None, "S1"}

\* "${sample}" in value
contains(value) == \E i \in 1..Len(value) : value[i] = Token

\* value.replace("${sample}", args.sample)
replace(value, sample) ==
    [i \in 1..Len(value) |-> IF value[i] = Token THEN sample ELSE value[i]]

\* a configuration: a top-level string, a section holding a string, and a
\* section holding a mapping that holds a string
Configs ==
    [title : Strings, input : [counts_file : Strings],
     plots : [volcano : [output : Strings]]]

\* lines 40-46: for each section that is a dict, each value of it that is a
\* string holding the token is replaced, in the loaded object itself
substitute(config, sample) ==
    IF sample = None THEN config
    ELSE [config EXCEPT !.input.counts_file =
              IF contains(@) THEN replace(@, sample) ELSE @]

CallSubstitute ==
    \E config \in Configs, sample \in SampleArgs :
        /\ call' = [op |-> "substitute", sample |-> sample, before |-> config,
                    \* config is rebound to nothing else: the object the file
                    \* was loaded into is the object that is rewritten
                    original |-> substitute(config, sample),
                    result |-> substitute(config, sample)]
        /\ UNCHANGED <<pipelineVars, monVars>>

\* a path: absolute or not, and its components
workspace_root == [absolute |-> TRUE, parts |-> <<"workspace">>]
Paths ==
    {[absolute |-> TRUE, parts |-> <<"refs", "k.idx">>],
     [absolute |-> FALSE, parts |-> <<"refs", "k.idx">>],
     [absolute |-> FALSE, parts |-> <<"k.idx">>]}

\* None where a path is expected
NoPath == [absolute |-> FALSE, parts |-> <<>>]

\* ConfigHandler.resolve_path
resolve_path(path_str) ==
    IF path_str = NoPath THEN NoPath
    ELSE IF path_str.absolute THEN path_str
    ELSE [absolute |-> TRUE, parts |-> workspace_root.parts \o path_str.parts]

\* a key is the sequence of its stem and its suffix
Keys ==
    {<<"index">>, <<"index", "_prefix">>, <<"transcriptome", "_index">>,
     <<"annotation", "_file">>, <<"output", "_dir">>}

\* key.endswith(suffix)
endswith(key, suffix) == key[Len(key)] = suffix

\* the keys the spec names as path-valued
PathKey(key) ==
    \/ \E suffix \in {"_dir", "_file", "_prefix", "_index"} : endswith(key, suffix)
    \/ key = <<"index">>

\* ConfigHandler.get_aligner_config, for one entry of the aligner's section
get_aligner_config(key, value) ==
    IF endswith(key, "_prefix") \/ endswith(key, "_index") \/ endswith(key, "_file")
    THEN resolve_path(value)
    ELSE value

CallAlignerConfig ==
    \E key \in Keys, value \in Paths :
        /\ call' = [op |-> "aligner_config", key |-> key, value |-> value,
                    resolved |-> get_aligner_config(key, value),
                    again |-> get_aligner_config(key, get_aligner_config(key, value))]
        /\ UNCHANGED <<pipelineVars, monVars>>

NextConfig ==
    \/ CallAvailable
    \/ CallCreate
    \/ CallSubstitute
    \/ CallAlignerConfig

SpecConfig == Init /\ [][NextConfig]_vars

(***************************************************************************)
(* Properties of Spec                                                      *)
(***************************************************************************)

\* index of a step among the steps of the mode (0: not one of them)
StepIndex(s) ==
    IF \E i \in 1..Len(Steps(mode)) : Steps(mode)[i] = s
    THEN CHOOSE i \in 1..Len(Steps(mode)) : Steps(mode)[i] = s
    ELSE 0

\* positions at which run_pipeline_step has decided about the current step
\* and, when it did not skip it, has called its runner
AfterDispatch ==
    {"pre_setup", "fastqc", "align", "stats", "multiqc", "ret", "except",
     "raised", "stepdone", "report"}

\* the process has dealt with step number i of its mode
Decided(i) ==
    /\ entry = "main"
    /\ pc # "idle"
    /\ \/ i < stepIdx
       \/ i = stepIdx /\ pc \in AfterDispatch
       \/ i = stepIdx /\ pc = "saving" /\ cont \in {"stepdone", "raised"}

\* the process ran to its own exit (it was not killed, and it got past the
\* load of the checkpoint file)
ExitedAfterSteps ==
    /\ pc = "idle"
    /\ entry = "main"
    /\ exitCode \in {ExitOk, ExitError}
    /\ executed \cup skipped # {}

\* C1: a step whose checkpoint record is completed when a process loads the
\* checkpoint file is never executed by that process (nothing on these entry
\* points clears the store in between).
C1_IdempotentSkip ==
    \A s \in OrchSteps : atStart[s] = "completed" => s \notin executed

C1_Witness ==
    \E s \in OrchSteps : atStart[s] = "completed" /\ s \in skipped

\* C2: a process started without the resume flag skips no step: every step
\* it deals with is executed, whatever an earlier run completed.
C2_ClearOnFreshRun ==
    ~resume => skipped = {}

\* C3: a process killed while a step body runs leaves that step recorded as
\* running, and a process that loads a step as running does not skip it: once
\* it has dealt with the step, it has executed the step body.
C3_InterruptedStepRerun ==
    /\ (pc = "idle" /\ killedIn # None) =>
           (file.kind = "json" /\ StatusOf(_load_checkpoints(file), killedIn) = "running")
    /\ \A i \in 1..Len(Steps(mode)) :
           (Decided(i) /\ atStart[Steps(mode)[i]] = "running") =>
               Steps(mode)[i] \in executed

C3_Witness ==
    \E s \in OrchSteps :
        /\ atStart[s] = "running"
        /\ s \in executed
        /\ pc = "stepdone"

C6_ExitCodeContract ==
    ExitedAfterSteps => (exitCode = ExitOk <=> ~toolFailed)

\* C7: when run_pipeline_step re-raises, the checkpoint file records the step
\* as failed with the message of the exception under metadata.error, and a
\* run that ended on a step failure leaves that step recorded as failed.
C7_FailureRecorded ==
    /\ pc = "raised" =>
           /\ file.kind = "json"
           /\ StatusOf(_load_checkpoints(file), CurrentStep) = "failed"
           /\ _load_checkpoints(file).steps[CurrentStep].metadata = {<<"error", exc>>}
           /\ exc \in {TypeErrorMsg, StepFailedMsg(CurrentStep)}
    /\ (ExitedAfterSteps /\ failedStep # None) =>
           StatusOf(_load_checkpoints(file), failedStep) = "failed"

C7_Witness ==
    /\ pc = "raised"
    /\ CurrentStep = "preprocessing"
    /\ toolFailed

\* C9: with the checkpoint showing the step that holds the restart point as
\* completed, a run configured with restart_from executes that step again.
C9_RestartFromOverride ==
    \A s \in OrchSteps :
        (entry = "main" /\ restart_from # None /\ atStart[s] = "completed") =>
            s \notin skipped

\* C10: no step strictly before restart_from in the canonical order is
\* executed.
C10_RestartSkipsEarlier ==
    \A s \in Range(CanonicalOrder) :
        (restart_from # None /\ Pos(s) < Pos(restart_from)) => s \notin executed

C10_Witness ==
    /\ restart_from = "alignment"
    /\ "alignment" \in executed
    /\ "quantification" \in executed
    /\ pc = "ret"
    /\ atStart["preprocessing"] = "pending"

(***************************************************************************)
(* Properties of SpecPost                                                  *)
(***************************************************************************)

\* C5: with --continue-on-error, when the exploratory analysis fails the
\* failure is recorded as failed in the checkpoint, the quality metrics that
\* come after it are still executed, and the exit status is not 0.
C5_ContinueOnError ==
    (/\ pc = "idle"
     /\ entry = "post_main"
     /\ continue_on_error
     /\ exitCode \in {ExitOk, ExitError}
     /\ failedStep = "eda") =>
        /\ "qa" \in executed
        /\ file.kind = "json"
        /\ StatusOf(_load_checkpoints(file), "eda") = "failed"
        /\ exitCode # ExitOk

\* C8: within one process, the record of a step becomes completed or failed
\* only from running.
C8_StatusTransitions ==
    [][(pc # "idle" /\ pc' # "idle") =>
          \A s \in AllSteps :
              (/\ StatusOf(checkpoints', s) \in {"completed", "failed"}
               /\ StatusOf(checkpoints', s) # StatusOf(checkpoints, s)) =>
                  StatusOf(checkpoints, s) = "running"]_vars

(***************************************************************************)
(* Properties of the checkpoint store                                      *)
(***************************************************************************)

\* C11: the checkpoint file never holds a partially written document, a
\* process killed in the middle of a save included.
C11_AtomicSave == file.kind # "corrupt"

C13_ShouldSkipIffCompleted ==
    (request.op = "should_skip" /\ pc = "store") =>
        /\ request.step \notin DOMAIN checkpoints.steps => answer = FALSE
        /\ request.step \in DOMAIN checkpoints.steps =>
              (answer <=> checkpoints.steps[request.step].status = "completed")

C13_Witness ==
    /\ request.op = "should_skip"
    /\ pc = "store"
    /\ answer = TRUE
    /\ \E s \in DOMAIN checkpoints.steps : checkpoints.steps[s].status = "running"

\* C14: save_checkpoint(step, status, metadata) replaces the record of step
\* only, sets last_completed_step to step exactly when status is completed
\* and leaves it otherwise, and always moves last_updated.
C14_SaveFrame ==
    (request.op \in {"save", "saved"} /\ pc \in {"store", "store_saving"}) =>
        /\ DOMAIN checkpoints.steps = DOMAIN before.steps \cup {request.step}
        /\ checkpoints.steps[request.step].status = request.status
        /\ checkpoints.steps[request.step].metadata = request.metadata
        /\ \A s \in DOMAIN before.steps \ {request.step} :
               checkpoints.steps[s] = before.steps[s]
        /\ checkpoints.last_completed_step =
               IF request.status = "completed" THEN request.step
               ELSE before.last_completed_step
        /\ checkpoints.last_updated # before.last_updated

C14_Witness ==
    /\ request.op = "saved"
    /\ pc = "store"
    /\ request.status # "completed"
    /\ before.last_completed_step \notin {None, request.step}
    /\ request.step \in DOMAIN before.steps

\* C15: after clear_checkpoints(), should_skip_step is false for every step,
\* there is no last completed step, and a manager constructed on the
\* directory loads no record.
C15_Clear ==
    request.op = "clear" =>
        /\ ~LoadRaises(file)
        /\ _load_checkpoints(file) = EmptyCheckpoints
        /\ pc = "store" =>
              /\ \A s \in StoreSteps : ~should_skip_step(checkpoints, s)
              /\ get_last_successful_step(checkpoints) = None

C15_Witness ==
    /\ request.op = "clear"
    /\ pc = "store"
    /\ fileAtStart = "json"

\* C16: a process of main.py that finds a checkpoint file that does not parse
\* stops with an error status, having executed no step body and skipped no
\* step.
C16_CorruptIsFatal ==
    (entry = "main" /\ fileAtStart = "corrupt") =>
        /\ pc = "idle"
        /\ exitCode = ExitError
        /\ executed = {}
        /\ skipped = {}

C16_Witness ==
    /\ entry = "main"
    /\ fileAtStart = "corrupt"
    /\ exitCode = ExitError

\* C17: constructing the manager on a directory with no checkpoint file does
\* not raise and gives an empty record set, with no step to skip.
C17_MissingFileOk ==
    (request.op = "open" /\ fileAtStart = "absent") =>
        /\ exitCode # ExitError
        /\ pc = "store" =>
              /\ checkpoints.steps = EmptyCheckpoints.steps
              /\ get_last_successful_step(checkpoints) = None
              /\ \A s \in StoreSteps : ~should_skip_step(checkpoints, s)

C17_Witness ==
    /\ request.op = "open"
    /\ fileAtStart = "absent"
    /\ pc = "store"
    /\ runs = 2

(***************************************************************************)
(* Properties of the aligner loop                                          *)
(***************************************************************************)

\* C18: the preprocessing step, which iterates the aligners, is recorded
\* completed only if at least one aligner produced a result, and is recorded
\* failed when none did.
C18_MultiBackendStatus ==
    (/\ entry = "main"
     /\ pc # "idle"
     /\ "preprocessing" \in executed
     /\ run_alignment_step(restart_from)
     /\ StatusOf(checkpoints, "preprocessing") = "completed") =>
        produced # {}

\* C19: an aligner that is unavailable or whose run fails does not end the
\* aligner loop: every aligner of the list is reached, and the pipeline
\* returns success.
C19_PartialFailureTolerance ==
    (/\ entry \in {"main", "pre_main"}
     /\ pc \in {"stats", "multiqc", "ret"}
     /\ selected_aligners # <<>>
     /\ run_alignment_step(restart_from)) =>
        /\ visited = Range(selected_aligners)
        /\ pc = "ret" => success

C19_Witness ==
    /\ pc = "ret"
    /\ selected_aligners = <<"salmon", "hisat2">>
    /\ "salmon" \notin produced
    /\ "hisat2" \in produced
    /\ toolFailed

\* C20: pipeline_stats.json as a run writes it has an entry for an aligner
\* exactly when that aligner produced a result in the run.
C20_SummaryContents ==
    (/\ entry \in {"main", "pre_main"}
     /\ pc \in {"multiqc", "ret"}
     /\ selected_aligners # <<>>) =>
        \A a \in Range(selected_aligners) :
            (\E p \in summary : p[1] = a) <=> a \in produced

C20_Witness ==
    /\ pc = "multiqc"
    /\ selected_aligners = <<"salmon", "hisat2">>
    /\ run_alignment_step(restart_from)
    /\ summary = {<<"hisat2", "bam_file">>}
    /\ toolFailed

(***************************************************************************)
(* Properties of the order of execution and of the configuration           *)
(***************************************************************************)
StagePos(e) == Pos(e[1])

\* position of an aligner in selected_aligners, 0 for an entry with none
BackendPos(e) ==
    IF \E i \in 1..Len(selected_aligners) : selected_aligners[i] = e[2]
    THEN CHOOSE i \in 1..Len(selected_aligners) : selected_aligners[i] = e[2]
    ELSE 0

\* a step of main.py starts only when the step before it is saved completed
PreviousStepSaved ==
    (entry = "main" /\ mode = "pre_post" /\ pc = "step"
                    /\ CurrentStep = "postprocessing") =>
        /\ file.kind = "json"
        /\ StatusOf(_load_checkpoints(file), "preprocessing") = "completed"

\* the aligners are entered in the order of selected_aligners
BackendsInOrder ==
    \A i, j \in 1..Len(log) :
        (i < j /\ log[i][2] # None /\ log[j][2] # None) =>
            BackendPos(log[i]) <= BackendPos(log[j])

C24_ConfigValidatedFirst ==
    (entry = "main" /\ ~check_config(sections)) =>
        /\ pc # "saving"
        /\ executed = {}
        /\ failedStep = None
        /\ pc = "idle" => exitCode # ExitOk

\* C27: when run_pipeline_step skips a completed step, the checkpoint in
\* memory and on disk is left as it was and no body or tool is entered.
C27_SkipNoSideEffects ==
    [][(entry' = "main" /\ skipped' # skipped /\ skipped' # {}) =>
          /\ file' = file
          /\ checkpoints' = checkpoints
          /\ now' = now
          /\ executed' = executed
          /\ log' = log
          /\ summary' = summary]_vars

C27_Witness ==
    /\ entry = "main"
    /\ pc = "stepdone"
    /\ skipped = {"preprocessing"}
    /\ executed = {}

(***************************************************************************)
(* Properties of the checkpoint record and of the postprocessing sub-steps *)
(***************************************************************************)
LastCompletedConsistent(ck) ==
    ck.last_completed_step # None =>
        /\ ck.last_completed_step \in DOMAIN ck.steps
        /\ ck.steps[ck.last_completed_step].status = "completed"

\* C28: whenever last_completed_step names a step, the steps mapping has an
\* entry for that step and its status is completed, in memory and in the
\* checkpoint file.
C28_LastCompletedInvariant ==
    /\ pc # "idle" => LastCompletedConsistent(checkpoints)
    /\ file.kind = "json" => LastCompletedConsistent(_load_checkpoints(file))

\* C29: in run_postprocessing_pipeline with a checkpoint manager, every
\* sub-step whose body was executed and finished without a failure is
\* recorded completed once the pipeline has moved past the sub-steps.
C29_SubStepResume ==
    (/\ entry = "post_api"
     /\ pc \in {"post_report", "post_ret"}
     /\ ~toolFailed) =>
        \A s \in executed \cap PostSteps :
            StatusOf(checkpoints, s) = "completed"

(***************************************************************************)
(* Properties of the file watcher                                          *)
(***************************************************************************)

\* C30: at no time are two Snakemake runs started by run_snakemake in
\* progress at once, and when no monitor is inside run_snakemake the lock
\* file does not exist.
C30_MutualExclusion ==
    /\ Cardinality({m \in Monitors : mon[m] = "snakemake"}) <= 1
    /\ (\A m \in Monitors : mon[m] \in {"sleep", "for"}) => ~lock_file

(***************************************************************************)
(* Properties of the configuration functions                               *)
(***************************************************************************)

\* C21: with the multi-aligner flag the list is the aligners section in
\* configuration order; otherwise it is the one selected aligner or one
\* fixed default, and the factory and the pipeline runner compute the same
\* list.
C21_AvailableBackends ==
    call.op = "available" =>
        /\ call.multi_aligner => call.factory = call.section
        /\ (~call.multi_aligner /\ call.aligner # None)
               => call.factory = <<call.aligner>>
        /\ ~call.multi_aligner => Len(call.factory) = 1
        /\ call.factory = call.runner

\* C22: create_aligner never raises; it returns None exactly when the name
\* is not one the command line accepts or the aligner's index entry is
\* missing.
C22_CreateTotal ==
    call.op = "create" =>
        /\ ~call.raised
        /\ (call.result = None)
               <=> (call.name \notin CliAligners \/ ~call.config.index)

\* C25: the substitution rewrites every string of the configuration that
\* holds the token, and the configuration object it was given is unchanged.
C25_SubstitutionPure ==
    (call.op = "substitute" /\ call.sample # None) =>
        /\ call.original = call.before
        /\ ~contains(call.result.title)
        /\ ~contains(call.result.input.counts_file)
        /\ ~contains(call.result.plots.volcano.output)

\* C26: a value under a path key resolves to an absolute path, and
\* resolving the result again changes nothing.
C26_ResolveIdempotent ==
    (call.op = "aligner_config" /\ PathKey(call.key)) =>
        /\ call.resolved.absolute
        /\ call.again = call.resolved

====
